---- MODULE Spec2Model ----
(***************************************************************************)
(* rgrep (src/main.rs): the match-to-segment decomposition `grep`, the     *)
(* line reporter `print_if_match` and the file scan `grep_file`.           *)
(*                                                                         *)
(* A &str is modelled as its UTF-8 byte sequence.  A byte is the pair      *)
(* <<c, k>>: the k-th byte of the encoding of character c.  Slicing is by  *)
(* byte offsets, counting characters counts the leading bytes, as in Rust. *)
(***************************************************************************)
EXTENDS Integers, Sequences, FiniteSets

VARIABLES
    pc,         \* position of the program
    r,          \* the pattern given on the command line
    colorize,   \* whether `colored` emits escape sequences (environment)
    file,       \* the results the lines() iterator has yielded so far
    num,        \* grep_file's line counter
    out,        \* standard output, one element per completed output line
    input,      \* argument of the latest call of grep
    m,          \* the (start, end) byte ranges collected in that call
    segments    \* what that call returned

vars == <<pc, r, colorize, file, num, out, input, m, segments>>

----------------------------------------------------------------------------
(* Bounds *)

MaxLen == 5         \* characters of an input line handed to grep
MaxLineLen == 3     \* characters of a line of the scanned file
MaxLines == 2       \* lines of the scanned file
MaxPatLen == 1      \* characters of the literal pattern of the file scan

----------------------------------------------------------------------------
(* Strings as UTF-8 byte sequences *)

\* "a" is U+0061, "eacute" is U+00E9, "yi" is U+4E00 (the CJK character of the
\* tests)
Alphabet == {"a", "eacute", "yi"}

\* number of bytes of the UTF-8 encoding of a character
Width(c) == CASE c = "a" -> 1 [] c = "eacute" -> 2 [] c = "yi" -> 3

Utf8(c) == [k \in 1..Width(c) |-> <<c, k>>]

RECURSIVE Encode(_)
Encode(cs) == IF cs = <<>> THEN <<>> ELSE Utf8(Head(cs)) \o Encode(Tail(cs))

\* the characters of the lines and patterns of the file scan
FileAlphabet == {"a", "yi"}

CharSeqs(A, n) == UNION {[1..k -> A] : k \in 0..n}

Strings(A, n) == {Encode(cs) : cs \in CharSeqs(A, n)}

\* an ASCII character is its own single byte
Ascii(c) == <<c, 1>>

\* s.len(): the length in bytes
ByteLen(s) == Len(s)

\* str::is_char_boundary, i a 0-based byte offset
IsCharBoundary(s, i) ==
    \/ i = 0
    \/ i = Len(s)
    \/ i \in 1..(Len(s) - 1) /\ s[i + 1][2] = 1

\* &s[a..b], a and b 0-based byte offsets, b exclusive
Slice(s, a, b) == SubSeq(s, a + 1, b)

\* faulty variant: the length in bytes taken for the number of characters
CharsCount_Bytes(s) == Len(s)

\* s.chars().count(): one character per leading byte
CharsCount(s) == Cardinality({i \in 1..Len(s) : s[i][2] = 1})

----------------------------------------------------------------------------
(* Segments *)

Text(t) == [kind |-> "Text", text |-> t]

Keyword(t, cs) == [kind |-> "Keyword", text |-> t, char_start |-> cs]

None == [some |-> FALSE]

Some(v) == [some |-> TRUE, v |-> v]

----------------------------------------------------------------------------
(* The matcher: Regex::find_iter, collected into (start, end) byte ranges *)

\* Every list of ranges find_iter can yield on s, whatever the pattern: ranges
\* lie on character boundaries, starts increase strictly, a match starts at or
\* after the end of the one before it, and an empty match never sits at the
\* end of the one before it.  prev is the end of the preceding match (-1 when
\* there is none), from the least start the next match may have.
RECURSIVE RangeListsFrom(_, _, _)
RangeListsFrom(s, from, prev) ==
    LET ranges == {rg \in (from..Len(s)) \X (from..Len(s)) :
                      /\ rg[1] <= rg[2]
                      /\ IsCharBoundary(s, rg[1])
                      /\ IsCharBoundary(s, rg[2])
                      /\ rg[1] >= prev
                      /\ rg[1] = rg[2] => rg[1] # prev}
    IN  {<<>>} \cup
        UNION {{<<rg>> \o rest : rest \in RangeListsFrom(s, rg[1] + 1, rg[2])} :
               rg \in ranges}

MatchLists(s) == RangeListsFrom(s, 0, -1)

\* A pattern Regex::new rejects, and the literal patterns
InvalidPattern == [valid |-> FALSE, lit |-> <<>>]

Literal(p) == [valid |-> TRUE, lit |-> p]

Patterns == {Literal(p) : p \in Strings(FileAlphabet, MaxPatLen) \ {<<>>}}

\* Whether the literal pat occurs in s at byte offset at
MatchesAt(pat, s, at) ==
    /\ at + Len(pat) <= Len(s)
    /\ Slice(s, at, at + Len(pat)) = pat

\* The leftmost non-overlapping occurrences of the non-empty literal pat in s,
\* searched from byte offset at
RECURSIVE FindFrom(_, _, _)
FindFrom(pat, s, at) ==
    IF at + Len(pat) > Len(s) THEN <<>>
    ELSE IF MatchesAt(pat, s, at)
         THEN <<<<at, at + Len(pat)>>>> \o FindFrom(pat, s, at + Len(pat))
         ELSE FindFrom(pat, s, at + 1)

\* r.find_iter(input).map(|m| (m.start(), m.end())).collect() for a literal r
find_iter(re, s) == FindFrom(re.lit, s, 0)

----------------------------------------------------------------------------
(* grep *)

\* faulty variant: a gap of one byte is not seen
GapBefore_Skip1(ele, last) == ele[1] > last + 1

\* `ele.0 > last`: unmatched text lies before the match
GapBefore(ele, last) == ele[1] > last

\* faulty variant: the 0-based character index
CharStart_ZeroBased(char_last) == char_last

\* `char_start: char_last + 1`
CharStart(char_last) == char_last + 1

\* faulty variant: the characters of the keyword are not counted
AfterKeyword_Forgot(char_last, keyword) == char_last

\* `char_last += keyword.chars().count()`
AfterKeyword(char_last, keyword) == char_last + CharsCount(keyword)

\* `last < input.len() + 1`: whether the final Text segment is pushed
PushTail(last, s) == last < ByteLen(s) + 1

\* faulty variant: a Text is pushed before every match, adjacent or not
GrepStep_AlwaysText(st, ele, s) ==
    LET text == Slice(s, st.last, ele[1])
        c1 == st.char_last + CharsCount(text)
        keyword == Slice(s, ele[1], ele[2])
    IN  [v |-> st.v \o <<Text(text), Keyword(keyword, CharStart(c1))>>,
         last |-> ele[2],
         char_last |-> AfterKeyword(c1, keyword)]

\* faulty variant: the Text before a match is cut from the start of the input
GrepStep_TextFromStart(st, ele, s) ==
    LET gap == GapBefore(ele, st.last)
        text == Slice(s, 0, ele[1])
        v1 == IF gap THEN Append(st.v, Text(text)) ELSE st.v
        c1 == IF gap THEN st.char_last + CharsCount(text) ELSE st.char_last
        keyword == Slice(s, ele[1], ele[2])
    IN  [v |-> Append(v1, Keyword(keyword, CharStart(c1))),
         last |-> ele[2],
         char_last |-> AfterKeyword(c1, keyword)]

\* One iteration of `for ele in m`, on the loop state st = (v, last, char_last)
GrepStep(st, ele, s) ==
    LET gap == GapBefore(ele, st.last)
        text == Slice(s, st.last, ele[1])
        v1 == IF gap THEN Append(st.v, Text(text)) ELSE st.v
        c1 == IF gap THEN st.char_last + CharsCount(text) ELSE st.char_last
        keyword == Slice(s, ele[1], ele[2])
    IN  [v |-> Append(v1, Keyword(keyword, CharStart(c1))),
         last |-> ele[2],
         char_last |-> AfterKeyword(c1, keyword)]

RECURSIVE GrepLoop(_, _, _)
GrepLoop(st, ms, s) ==
    IF ms = <<>> THEN st
    ELSE GrepLoop(GrepStep(st, Head(ms), s), Tail(ms), s)

\* faulty variant: a single match is taken for none
IsEmpty_AtMostOne(ms) == Len(ms) <= 1

\* `m.is_empty()`
IsEmpty(ms) == ms = <<>>

\* grep, from the collected ranges ms on
grep(ms, s) ==
    IF IsEmpty(ms) THEN None
    ELSE LET st == GrepLoop([v |-> <<>>, last |-> 0, char_last |-> 0], ms, s)
         IN  Some(IF PushTail(st.last, s)
                  THEN Append(st.v, Text(Slice(s, st.last, ByteLen(s))))
                  ELSE st.v)

----------------------------------------------------------------------------
(* grep as a function of its inputs: any line, any list of ranges the       *)
(* matcher can yield on it.                                                 *)

NoCall == [some |-> FALSE, pending |-> TRUE]

InitGrep ==
    /\ pc = "grep"
    /\ r = InvalidPattern
    /\ colorize = FALSE
    /\ file = <<>>
    /\ num = 0
    /\ out = <<>>
    /\ input \in Strings(Alphabet, MaxLen)
    /\ m \in MatchLists(input)
    /\ segments = NoCall

GrepCall ==
    /\ pc = "grep"
    /\ segments' = grep(m, input)
    /\ pc' = "returned"
    /\ UNCHANGED <<r, colorize, file, num, out, input, m>>

NextGrep == GrepCall

SpecGrep == InitGrep /\ [][NextGrep]_vars

----------------------------------------------------------------------------
(* print_if_match *)

Digits == <<"0", "1", "2", "3", "4", "5", "6", "7", "8", "9">>

\* usize::to_string and the `{}` of a usize: decimal digits, no padding
RECURSIVE ToString(_)
ToString(n) ==
    IF n < 10 THEN <<Ascii(Digits[n + 1])>>
    ELSE Append(ToString(n \div 10), Ascii(Digits[(n % 10) + 1]))

\* faulty variant: the separator is left out
RECURSIVE Join_NoSep(_, _)
Join_NoSep(strs, sep) ==
    IF strs = <<>> THEN <<>> ELSE strs[1] \o Join_NoSep(Tail(strs), sep)

\* [String]::join(sep)
RECURSIVE Join(_, _)
Join(strs, sep) ==
    IF strs = <<>> THEN <<>>
    ELSE IF Len(strs) = 1 THEN strs[1]
    ELSE strs[1] \o sep \o Join(Tail(strs), sep)

IsKeyword(sg) == sg.kind = "Keyword"

\* the filter and map of `char_indies`, joined with ","
CharIndies(segs) ==
    LET kws == SelectSeq(segs, IsKeyword)
    IN  Join([i \in 1..Len(kws) |-> ToString(kws[i].char_start)], <<Ascii(",")>>)

\* `keyword.text.red()`: wrapped in the escape sequences when colouring is on
Red(t) == IF colorize THEN <<Ascii("ESC[31m")>> \o t \o <<Ascii("ESC[0m")>> ELSE t

\* the `for segment in segments` loop
RECURSIVE PrintSegments(_)
PrintSegments(segs) ==
    IF segs = <<>> THEN <<>>
    ELSE (IF IsKeyword(Head(segs)) THEN Red(Head(segs).text) ELSE Head(segs).text)
         \o PrintSegments(Tail(segs))

\* what print_if_match writes up to the final "\n", given Some(segs)
OutputLine(segs, line) ==
    ToString(line) \o <<Ascii("-")>> \o CharIndies(segs) \o <<Ascii(":"), Ascii(" ")>>
    \o PrintSegments(segs)

\* standard output after print_if_match(r, s, line)
print_if_match(res, line) ==
    IF res.some THEN Append(out, OutputLine(res.v, line)) ELSE out

----------------------------------------------------------------------------
(* main and grep_file *)

Ok(line) == [ok |-> TRUE, line |-> line]

Err == [ok |-> FALSE, line |-> <<>>]

\* `println!("{}:", path.as_ref().display())`
Header == <<Ascii("PATH"), Ascii(":")>>

Init ==
    /\ pc = "main"
    /\ r \in Patterns \cup {InvalidPattern}
    /\ colorize \in BOOLEAN
    /\ file = <<>>
    /\ num = 0
    /\ out = <<>>
    /\ input = <<>>
    /\ m = <<>>
    /\ segments = NoCall

\* main: `Regex::new(&args.pattern).unwrap()`, then the call of grep_file
Compile ==
    /\ pc = "main"
    /\ pc' = IF r.valid THEN "grep_file" ELSE "panicked"
    /\ UNCHANGED <<r, colorize, file, num, out, input, m, segments>>

\* grep_file up to the loop: the header, then `File::open(path).await?`
OpenFile ==
    /\ pc = "grep_file"
    /\ out' = Append(out, Header)
    /\ \E opened \in BOOLEAN : pc' = IF opened THEN "scan" ELSE "failed"
    /\ UNCHANGED <<r, colorize, file, num, input, m, segments>>

\* one iteration of the loop whose line_res is Ok(line)
ReadLine ==
    /\ pc = "scan"
    /\ Len(file) < MaxLines
    /\ \E line \in Strings(FileAlphabet, MaxLineLen) :
          LET ms == find_iter(r, line)
              res == grep(ms, line)
          IN  /\ file' = Append(file, Ok(line))
              /\ num' = num + 1
              /\ input' = line
              /\ m' = ms
              /\ segments' = res
              /\ out' = print_if_match(res, num + 1)
    /\ UNCHANGED <<pc, r, colorize>>

\* faulty variant: the line that fails to decode is skipped and the scan goes on
ReadErr_Skip ==
    /\ pc = "scan"
    /\ Len(file) < MaxLines
    /\ file' = Append(file, Err)
    /\ num' = num + 1
    /\ UNCHANGED <<pc, r, colorize, out, input, m, segments>>

\* one iteration whose line_res is an Err: `line_res.unwrap()` panics
ReadErr ==
    /\ pc = "scan"
    /\ Len(file) < MaxLines
    /\ file' = Append(file, Err)
    /\ num' = num + 1
    /\ pc' = "panicked"
    /\ UNCHANGED <<r, colorize, out, input, m, segments>>

\* the iterator is exhausted: `Ok(())`
EndOfFile ==
    /\ pc = "scan"
    /\ pc' = "done"
    /\ UNCHANGED <<r, colorize, file, num, out, input, m, segments>>

Next == Compile \/ OpenFile \/ ReadLine \/ ReadErr \/ EndOfFile

Spec == Init /\ [][Next]_vars

----------------------------------------------------------------------------
(* Properties of grep.  They are stated on the latest call: its argument    *)
(* input, the ranges m the matcher yielded, and the returned segments.      *)

\* the number of characters of a string, decoded character by character
RECURSIVE CharsIn(_)
CharsIn(s) ==
    IF s = <<>> THEN 0
    ELSE 1 + CharsIn(SubSeq(s, Width(s[1][1]) + 1, Len(s)))

RECURSIVE ConcatText(_)
ConcatText(segs) ==
    IF segs = <<>> THEN <<>> ELSE Head(segs).text \o ConcatText(Tail(segs))

\* the positions of the Keyword segments in segs, in order
KeywordPos(segs) ==
    SelectSeq([i \in 1..Len(segs) |-> i], LAMBDA i : segs[i].kind = "Keyword")

KeywordsOf(segs) == SelectSeq(segs, IsKeyword)

\* the number of Keyword segments among the first i elements of segs
KeywordsUpTo(segs, i) == Cardinality({j \in 1..i : segs[j].kind = "Keyword"})

HasMultiByte(s) == \E i \in 1..Len(s) : Width(s[i][1]) > 1

Returned == segments # NoCall

\* the ranges of the spec's data model: start < end for each
NonEmptyRanges == \A j \in 1..Len(m) : m[j][1] < m[j][2]

\* C1: whenever grep returns Some(sequence), the texts of its segments,
\* concatenated in order, are the input line exactly.
C1_Reconstruction ==
    (Returned /\ segments.some) => ConcatText(segments.v) = input

\* a returned sequence with text before, between and after two matches, on a
\* line with a multi-byte character
C1_Witness ==
    /\ Returned /\ segments.some /\ NonEmptyRanges
    /\ Len(m) = 2 /\ Len(segments.v) = 5
    /\ HasMultiByte(input)
    /\ segments.v[5].text # <<>>

\* C2 as stated: each Keyword's char_start is 1 plus the number of characters
\* before the byte start of its match, and on a line containing a multi-byte
\* character it is never that byte start.
C2_Original ==
    (Returned /\ segments.some /\ NonEmptyRanges) =>
        LET kws == KeywordsOf(segments.v)
        IN  /\ Len(kws) = Len(m)
            /\ \A j \in 1..Len(kws) :
                  /\ kws[j].char_start = 1 + CharsIn(Slice(input, 0, m[j][1]))
                  /\ HasMultiByte(input) => kws[j].char_start # m[j][1]

\* C2 amended: each Keyword's char_start is 1 plus the number of characters
\* before the byte start of its match; it is at most the 1-based byte offset
\* start + 1, and equals it exactly when no multi-byte character precedes the
\* match.
C2_CharStart ==
    (Returned /\ segments.some) =>
        LET kws == KeywordsOf(segments.v)
        IN  /\ Len(kws) = Len(m)
            /\ \A j \in 1..Len(kws) :
                  /\ kws[j].char_start = 1 + CharsIn(Slice(input, 0, m[j][1]))
                  /\ kws[j].char_start <= m[j][1] + 1
                  /\ kws[j].char_start = m[j][1] + 1
                        <=> ~HasMultiByte(Slice(input, 0, m[j][1]))

\* a Keyword preceded by a three-byte character: char_start 2, byte start 3
C2_Witness ==
    /\ Returned /\ segments.some /\ NonEmptyRanges
    /\ \E j \in 1..Len(m) :
          /\ m[j][1] = 3
          /\ input[1] = <<"yi", 1>>
          /\ KeywordsOf(segments.v)[j].char_start = 2

\* C3: when the last match ends at the end of the input the last element is
\* its Keyword; a trailing Text is there only when the last match ends before
\* the end of the input.
C3_NoTrailingText ==
    (Returned /\ segments.some /\ NonEmptyRanges) =>
        LET v == segments.v
            end == m[Len(m)][2]
        IN  /\ end = ByteLen(input) => v[Len(v)].kind = "Keyword"
            /\ v[Len(v)].kind = "Text" => end < ByteLen(input)

\* C4: grep returns None exactly when the matcher found no range; otherwise
\* it returns Some of a sequence holding a Keyword.
C4_NoneIffNoMatch ==
    Returned =>
        /\ segments = None <=> m = <<>>
        /\ m # <<>> =>
              /\ segments.some
              /\ \E i \in 1..Len(segments.v) : segments.v[i].kind = "Keyword"

C4_Witness == Returned /\ segments = None /\ input # <<>>

\* C5: for Keywords k1 before k2, k1.char_start plus the characters of k1's
\* text is at most k2.char_start, and char_start increases strictly.
C5_Monotonic ==
    (Returned /\ segments.some) =>
        LET kws == KeywordsOf(segments.v)
        IN  \A i, j \in 1..Len(kws) :
               i < j =>
                  /\ kws[i].char_start + CharsIn(kws[i].text) <= kws[j].char_start
                  /\ kws[i].char_start < kws[j].char_start

\* two Keywords, the first of more than one character
C5_Witness ==
    /\ Returned /\ segments.some
    /\ LET kws == KeywordsOf(segments.v)
       IN  Len(kws) >= 2 /\ CharsIn(kws[1].text) >= 2 /\ HasMultiByte(kws[1].text)

\* C6: when the first match starts at byte 0 the first element is its
\* Keyword, with char_start 1.
C6_MatchAtStart ==
    (Returned /\ segments.some /\ m[1][1] = 0) =>
        /\ segments.v[1].kind = "Keyword"
        /\ segments.v[1].char_start = 1
        /\ segments.v[1].text = Slice(input, m[1][1], m[1][2])

C6_Witness ==
    /\ Returned /\ segments.some
    /\ m[1] = <<0, 3>>
    /\ input[1] = <<"yi", 1>>
    /\ Len(input) > 3

\* C7: when a match starts where the one before it ends, their two Keywords
\* are consecutive elements and the second's char_start is the first's plus
\* the characters of the first's text.
C7_Adjacent ==
    (Returned /\ segments.some) =>
        LET pos == KeywordPos(segments.v)
        IN  /\ Len(pos) = Len(m)
            /\ \A j \in 1..(Len(m) - 1) :
                  m[j + 1][1] = m[j][2] =>
                     /\ pos[j + 1] = pos[j] + 1
                     /\ segments.v[pos[j + 1]].char_start =
                           segments.v[pos[j]].char_start
                              + CharsIn(segments.v[pos[j]].text)

\* two adjacent matches after a leading text, the first a multi-byte one
C7_Witness ==
    /\ Returned /\ segments.some /\ NonEmptyRanges
    /\ Len(m) = 2 /\ m[1][1] > 0 /\ m[2][1] = m[1][2]
    /\ m[1][2] - m[1][1] = 3
    /\ input[m[1][1] + 1] = <<"yi", 1>>

\* C10: with n matches there are n Keywords, the i-th with the text of the
\* i-th range; every Text is the input between the end of the match before it
\* (or byte 0) and the start of the match after it (or the end of the input);
\* there are at most 2n+1 elements and no two Texts in a row.
C10_Layout ==
    (Returned /\ segments.some) =>
        LET v == segments.v
            n == Len(m)
            kws == KeywordsOf(v)
        IN  /\ n >= 1
            /\ Len(kws) = n
            /\ \A j \in 1..n : kws[j].text = Slice(input, m[j][1], m[j][2])
            /\ \A i \in 1..Len(v) :
                  v[i].kind = "Text" =>
                     LET k == KeywordsUpTo(v, i)
                         lo == IF k = 0 THEN 0 ELSE m[k][2]
                         hi == IF k = n THEN ByteLen(input) ELSE m[k + 1][1]
                     IN  v[i].text = Slice(input, lo, hi)
            /\ Len(v) <= 2 * n + 1
            /\ \A i \in 1..(Len(v) - 1) :
                  ~(v[i].kind = "Text" /\ v[i + 1].kind = "Text")

\* two matches with text before, between and after them
C10_Witness ==
    /\ Returned /\ segments.some /\ NonEmptyRanges
    /\ Len(m) = 2 /\ Len(segments.v) = 5
    /\ \A i \in {1, 3, 5} : segments.v[i].kind = "Text" /\ segments.v[i].text # <<>>

----------------------------------------------------------------------------
(* Properties of the file scan.  Standard output is read back: the header   *)
(* line, then one record per printed line, parsed as                        *)
(* <line number>-<offset>,<offset>,...: <line>.                             *)

\* the index of the first tok in seq, 0 when there is none
FirstIndex(seq, tok) ==
    IF \E i \in 1..Len(seq) : seq[i] = tok
    THEN CHOOSE i \in 1..Len(seq) : seq[i] = tok /\ \A j \in 1..(i - 1) : seq[j] # tok
    ELSE 0

IsDigit(b) == b[2] = 1 /\ \E d \in 1..10 : Digits[d] = b[1]

DigitValue(b) == (CHOOSE d \in 1..10 : Digits[d] = b[1]) - 1

IsNumber(ds) == ds # <<>> /\ \A i \in 1..Len(ds) : IsDigit(ds[i])

RECURSIVE ParseNat(_)
ParseNat(ds) ==
    IF Len(ds) = 1 THEN DigitValue(ds[1])
    ELSE 10 * ParseNat(SubSeq(ds, 1, Len(ds) - 1)) + DigitValue(ds[Len(ds)])

RECURSIVE SplitCommas(_)
SplitCommas(seq) ==
    LET c == FirstIndex(seq, Ascii(","))
    IN  IF c = 0 THEN <<seq>>
        ELSE <<SubSeq(seq, 1, c - 1)>> \o SplitCommas(SubSeq(seq, c + 1, Len(seq)))

\* the parts of a record: before the first "-", between it and the first ":"
RecLine(rec) == SubSeq(rec, 1, FirstIndex(rec, Ascii("-")) - 1)

RecOffsets(rec) ==
    SplitCommas(SubSeq(rec, FirstIndex(rec, Ascii("-")) + 1,
                       FirstIndex(rec, Ascii(":")) - 1))

WellFormed(rec) ==
    /\ FirstIndex(rec, Ascii("-")) > 1
    /\ FirstIndex(rec, Ascii(":")) > FirstIndex(rec, Ascii("-")) + 1
    /\ IsNumber(RecLine(rec))
    /\ \A k \in 1..Len(RecOffsets(rec)) : IsNumber(RecOffsets(rec)[k])

\* the pattern occurs somewhere in the line
HasMatch(line) == \E at \in 0..Len(line) : MatchesAt(r.lit, line, at)

\* the 1-based positions of the lines read so far that decoded and match
MatchingLines ==
    SelectSeq([i \in 1..Len(file) |-> i],
              LAMBDA i : file[i].ok /\ HasMatch(file[i].line))

\* the char_start values of the Keyword segments of a matching line
CharStartsOf(line) ==
    LET kws == KeywordsOf(grep(find_iter(r, line), line).v)
    IN  [k \in 1..Len(kws) |-> kws[k].char_start]

Records == Tail(out)

\* C8: a record is printed for a line exactly when the line has a match;
\* records come in file order; a record's line number is the 1-based position
\* of its line among all lines; its comma-joined offsets are the char_start
\* values of the line's Keyword segments, in order.
C8_Records ==
    pc \in {"scan", "done", "panicked"} /\ out # <<>> =>
        /\ Len(Records) = Len(MatchingLines)
        /\ \A j \in 1..Len(Records) :
              /\ j <= Len(MatchingLines)
              /\ WellFormed(Records[j])
              /\ ParseNat(RecLine(Records[j])) = MatchingLines[j]
              /\ LET offs == RecOffsets(Records[j])
                 IN  [k \in 1..Len(offs) |-> ParseNat(offs[k])]
                        = CharStartsOf(file[MatchingLines[j]].line)

\* a file whose first line has no match and whose second has two: one record,
\* of line 2, with two offsets
C8_Witness ==
    /\ pc = "done"
    /\ Len(file) = 2
    /\ ~HasMatch(file[1].line)
    /\ Len(Records) = 1
    /\ ParseNat(RecLine(Records[1])) = 2
    /\ Len(RecOffsets(Records[1])) = 2

\* C9: a line that fails to decode ends the run: it is the last line read,
\* the program has panicked and never completes normally, it has no record,
\* and the records printed are those of the matching lines before it.
C9_DecodeFailureFatal ==
    \A i \in 1..Len(file) :
        ~file[i].ok =>
            /\ i = Len(file)
            /\ pc = "panicked"
            /\ Len(Records) = Len(MatchingLines)
            /\ \A j \in 1..Len(MatchingLines) : MatchingLines[j] < i

\* the second line fails to decode after the first has been printed
C9_Witness ==
    /\ pc = "panicked"
    /\ Len(file) = 2
    /\ ~file[2].ok
    /\ HasMatch(file[1].line)
    /\ Len(Records) = 1

\* The ranges the literal matcher yields are among those grep is checked on.
FindIterInMatchLists ==
    (Returned /\ pc # "returned") => m \in MatchLists(input)

====
